---- MODULE Spec2Model ----
(***************************************************************************)
(* DataForSEO MCP server: the tool registry, the registration helpers, the *)
(* HTTP/JSON-RPC bridge (src/server-http.ts) and the standard-I/O entry    *)
(* points, as one state machine (Spec); the provider client as a second    *)
(* one (ClientSpec).                                                       *)
(***************************************************************************)
EXTENDS Integers, Sequences, FiniteSets, TLC

VARIABLES
    entry,          \* the entry point this process runs: "http" (server-http.ts),
                    \* "index" (src/index.ts) or "main" (the stdio server with Local Falcon)
    env,            \* process.env: which variables are set
    phase,          \* "boot", "listening" (http), "connected" (stdio), "exited"
    mcpServer,      \* server-http.ts:37 singleton (Null until created)
    toolRegistry,   \* api/tools.ts toolRegistry: name -> entry
    dataForSeoClient, \* globalThis.__dataForSeoClient
    inflight,       \* per request slot: a tools/call awaiting its handler
    outbox,         \* the response being written to the client, or NoResponse
    clientCalls,    \* provider client: the get/post calls made so far
    upstream,       \* provider client: the HTTP requests sent to the provider
    pendingCall,    \* provider client: index of the call awaiting its response, 0 if none
    clientOutcomes  \* provider client: how each completed call settled

clientVars == <<clientCalls, upstream, pendingCall, clientOutcomes>>

vars == <<entry, env, phase, mcpServer, toolRegistry, dataForSeoClient, inflight, outbox,
          clientCalls, upstream, pendingCall, clientOutcomes>>

(* ------------------------------ bounds --------------------------------- *)

MaxInFlight == 2

MaxCalls == 3

Slots == 1..MaxInFlight

(* --------------------------- JavaScript values -------------------------- *)

Undefined == [t |-> "undefined"]

Null == [t |-> "null"]

Num(n) == [t |-> "number", n |-> n]

Str(s) == [t |-> "string", s |-> s]

\* a value JSON.stringify cannot serialise (a BigInt, a circular structure)
BigIntValue == [t |-> "bigint"]

\* an Error instance
ErrorObj(msg) == [t |-> "Error", message |-> msg, stack |-> "Error: " \o msg]

\* JSON.stringify / res.json drop every member whose value is undefined, and a
\* parsed JSON document has no undefined member
Serialize(obj) == [k \in {m \in DOMAIN obj : m = "t" \/ obj[m] # Undefined} |-> obj[k]]

\* obj.key: a missing member reads as undefined
Get(obj, key) == IF key \in DOMAIN obj THEN obj[key] ELSE Undefined

EmptyObj == [t |-> "object"]

\* the arguments object {id: idv}
ArgsObj(idv) == [t |-> "object", id |-> idv]

\* the params object {name, arguments}
ParamsObj(nm, args) == Serialize([t |-> "object", name |-> nm, arguments |-> args])

\* JavaScript truthiness of a value
Truthy(v) ==
    /\ v.t \notin {"undefined", "null"}
    /\ ~(v.t = "number" /\ v.n = 0)
    /\ ~(v.t = "string" /\ v.s = "")

\* a || b
Or(a, b) == IF Truthy(a) THEN a ELSE b

\* params?.name
ParamsName(params) == IF params.t = "object" THEN Get(params, "name") ELSE Undefined

(* ------------------------- allow-list variables ------------------------ *)

\* the value of an environment variable that is set: its characters
EnvString(cs) == [t |-> "string", cs |-> cs]

LowerCaseLetters ==
    <<"a", "b", "c", "d", "e", "f", "g", "h", "i", "j", "k", "l", "m",
      "n", "o", "p", "q", "r", "s", "t", "u", "v", "w", "x", "y", "z">>

UpperCaseLetters ==
    <<"A", "B", "C", "D", "E", "F", "G", "H", "I", "J", "K", "L", "M",
      "N", "O", "P", "Q", "R", "S", "T", "U", "V", "W", "X", "Y", "Z">>

\* String.prototype.toUpperCase, on the characters of a string
ToUpperCase(cs) ==
    [i \in 1..Len(cs) |->
        IF \E k \in 1..Len(LowerCaseLetters) : LowerCaseLetters[k] = cs[i]
        THEN UpperCaseLetters[CHOOSE k \in 1..Len(LowerCaseLetters) : LowerCaseLetters[k] = cs[i]]
        ELSE cs[i]]

\* String.prototype.toLowerCase
ToLowerCase(cs) ==
    [i \in 1..Len(cs) |->
        IF \E k \in 1..Len(UpperCaseLetters) : UpperCaseLetters[k] = cs[i]
        THEN LowerCaseLetters[CHOOSE k \in 1..Len(UpperCaseLetters) : UpperCaseLetters[k] = cs[i]]
        ELSE cs[i]]

\* String.prototype.trim
RECURSIVE Trim(_)
Trim(cs) ==
    IF cs # <<>> /\ Head(cs) = " " THEN Trim(Tail(cs))
    ELSE IF cs # <<>> /\ cs[Len(cs)] = " " THEN Trim(SubSeq(cs, 1, Len(cs) - 1))
    ELSE cs

\* String.prototype.split(sep): the pieces between the separators
RECURSIVE Split(_, _)
Split(cs, sep) ==
    IF \A i \in 1..Len(cs) : cs[i] # sep
    THEN <<cs>>
    ELSE LET k == CHOOSE i \in 1..Len(cs) :
                      cs[i] = sep /\ \A j \in 1..(i - 1) : cs[j] # sep
         IN  <<SubSeq(cs, 1, k - 1)>> \o Split(SubSeq(cs, k + 1, Len(cs)), sep)

\* the string made of these characters
RECURSIVE Join(_)
Join(cs) == IF cs = <<>> THEN "" ELSE Head(cs) \o Join(Tail(cs))

\* the characters of a tool name
Characters(name) ==
    CASE name = "x_post" -> <<"x", "_", "p", "o", "s", "t">>
      [] name = "x_ready" -> <<"x", "_", "r", "e", "a", "d", "y">>
      [] name = "x_get" -> <<"x", "_", "g", "e", "t">>
      [] name = "ai_live" -> <<"a", "i", "_", "l", "i", "v", "e">>
      [] name = "lf_scan" -> <<"l", "f", "_", "s", "c", "a", "n">>
      [] name = "k_live" -> <<"k", "_", "l", "i", "v", "e">>

\* new Set(...)
SetOf(elems) == [t |-> "Set", elems |-> elems]

\* parseEnabledModules(envValue): null when unset or empty, else the set of the
\* trimmed, upper-cased pieces
ParseEnabledModules(envValue) ==
    IF envValue = Undefined \/ envValue.cs = <<>>
    THEN [t |-> "null"]
    ELSE LET parts == Split(envValue.cs, ",")
         IN  SetOf({Join(ToUpperCase(Trim(parts[i]))) : i \in 1..Len(parts)})

\* isModuleEnabled(module, enabledModules)
IsModuleEnabled(module, enabledModules) ==
    enabledModules.t = "null" \/ module \in enabledModules.elems

\* parseEnabledTools(envValue): null when unset or empty, else the set of the
\* trimmed, lower-cased pieces
ParseEnabledTools(envValue) ==
    IF envValue = Undefined \/ envValue.cs = <<>>
    THEN [t |-> "null"]
    ELSE LET parts == Split(envValue.cs, ",")
         IN  SetOf({Join(ToLowerCase(Trim(parts[i]))) : i \in 1..Len(parts)})

\* isToolEnabled(name, enabledTools)
IsToolEnabled(name, enabledTools) ==
    IF enabledTools.t = "null" THEN TRUE
    ELSE Join(ToLowerCase(Characters(name))) \in enabledTools.elems

\* the category (module) whose registration function declares the tool
ToolModule(name) ==
    CASE name \in {"x_post", "x_ready", "x_get"} -> "SERP"
      [] name = "ai_live" -> "AI_OPTIMIZATION"
      [] name = "lf_scan" -> "LOCALFALCON"
      [] name = "k_live" -> "KEYWORDS"

(* ------------------------------ requests ------------------------------- *)

JsonRpcValues == {Str("2.0"), Str("1.0"), Undefined}

MethodValues ==
    {Str("initialize"), Str("tools/list"), Str("tools/call"), Str("foo"), Undefined}

IdValues == {Undefined, Num(0), Num(1), Str("")}

NameValues == {Undefined, Str(""), Str("x_get"), Str("nope")}

ArgumentsValues == {Undefined, ArgsObj(Str("123"))}

ParamsValues ==
    {Undefined} \cup {ParamsObj(nm, a) : nm \in NameValues, a \in ArgumentsValues}

\* the parsed JSON bodies a client may POST to /mcp
Bodies ==
    {Serialize([jsonrpc |-> j, method |-> m, params |-> p, id |-> i]) :
        j \in JsonRpcValues, m \in MethodValues, p \in ParamsValues, i \in IdValues}

(* ------------------------- registry and helpers ------------------------ *)

\* a zod raw shape: a set of properties, each with its type and (for an array)
\* its item type; the shape {} accepts no fields
EmptySchema == {}

\* { id: z.string() }
IdSchema == {[prop |-> "id", type |-> "string", items |-> Undefined]}

\* a handler passed to registerTool: the function itself, or one of the two
\* adapters registerTaskTool builds around readyHandler and getHandler
Handler(fn) == [adapter |-> "none", fn |-> fn]

ReadyAdapter(fn) == [adapter |-> "ready", fn |-> fn]

GetAdapter(fn) == [adapter |-> "get", fn |-> fn]

\* the wrapped callable runs handler(params, client): the handler it ran, what
\* it passed, and the call the handler (or the adapter) makes in turn
HandlerCall(handler, params, client) ==
    [handler |-> handler, params |-> params, client |-> client,
     fn |-> handler.fn,
     args |-> CASE handler.adapter = "ready" -> <<client>>
                [] handler.adapter = "get" -> <<Get(params, "id"), client>>
                [] OTHER -> <<params, client>>]

EmptyRegistry == [n \in {} |-> Undefined]

\* new McpServer({...}): no tool registered on it yet
NewMcpServer == [t |-> "McpServer", tools |-> {}]

\* toolRegistry.set(name, {name, description: '', inputSchema: schema, handler: toolHandler})
RegistrySet(registry, name, schema, handler) ==
    [n \in DOMAIN registry \cup {name} |->
        IF n = name
        THEN [name |-> name, description |-> "", inputSchema |-> schema, handler |-> handler]
        ELSE registry[n]]

\* registerTool(server, name, schema, handler): st is the pair the call works on,
\* the McpServer and the module-level toolRegistry
RegisterTool(st, name, schema, handler) ==
    [server |-> [st.server EXCEPT !.tools = @ \cup {name}],
     registry |-> RegistrySet(st.registry, name, schema, handler)]

\* registerTaskTool registering getHandler itself, without the adapter that
\* passes params.id
RegisterTaskToolUnadapted(st, baseName, postSchema, postHandler, readyHandler, getHandler) ==
    LET s1 == RegisterTool(st, baseName \o "_post", postSchema, Handler(postHandler))
        s2 == RegisterTool(s1, baseName \o "_ready", EmptySchema, ReadyAdapter(readyHandler))
    IN  RegisterTool(s2, baseName \o "_get", IdSchema, Handler(getHandler))

\* registerTaskTool(server, baseName, postSchema, postHandler, readyHandler, getHandler)
RegisterTaskTool(st, baseName, postSchema, postHandler, readyHandler, getHandler) ==
    LET s1 == RegisterTool(st, baseName \o "_post", postSchema, Handler(postHandler))
        s2 == RegisterTool(s1, baseName \o "_ready", EmptySchema, ReadyAdapter(readyHandler))
    IN  RegisterTool(s2, baseName \o "_get", IdSchema, GetAdapter(getHandler))

\* { type: 'number' }, the items of an array of numbers
NumberItems == [t |-> "object", type |-> "number"]

\* the schema of the task tool's submit step: a keyword, a list of tags whose
\* item type is not declared, and a list of numeric ids
PostSchema ==
    {[prop |-> "keyword", type |-> "string", items |-> Undefined],
     [prop |-> "tags", type |-> "array", items |-> Undefined],
     [prop |-> "ids", type |-> "array", items |-> NumberItems]}

\* registerSerpTools ... registerBusinessDataTools: the primary provider's
\* categories, here one live operation followed by one task-pattern operation
RegisterPrimaryTools(st) ==
    RegisterTaskTool(RegisterTool(st, "k_live", EmptySchema, Handler("k.liveHandler")),
                     "x", PostSchema, "x.postHandler", "x.readyHandler", "x.getHandler")

\* registerAiOptimizationTools: a category only the HTTP bridge registers
RegisterAiOptimizationTools(st) ==
    RegisterTool(st, "ai_live", EmptySchema, Handler("ai.liveHandler"))

\* registerLocalFalconTools: the secondary provider's tool group
RegisterLocalFalconTools(st) ==
    RegisterTool(st, "lf_scan", EmptySchema, Handler("lf.scanHandler"))

\* getMcpServer caching and returning the new server before the register calls
GetMcpServerUnregistered(server, registry, e) ==
    IF server # Null
    THEN [threw |-> FALSE, message |-> "", server |-> server, registry |-> registry]
    ELSE IF ~e.login \/ ~e.password
    THEN [threw |-> TRUE, message |-> "DataForSEO credentials not provided",
          server |-> server, registry |-> registry]
    ELSE [threw |-> FALSE, message |-> "", server |-> NewMcpServer, registry |-> registry]

\* getMcpServer(): the cached server, or a new one with every tool registered;
\* throws when a credential is missing
GetMcpServer(server, registry, e) ==
    IF server # Null
    THEN [threw |-> FALSE, message |-> "", server |-> server, registry |-> registry]
    ELSE IF ~e.login \/ ~e.password
    THEN [threw |-> TRUE, message |-> "DataForSEO credentials not provided",
          server |-> server, registry |-> registry]
    ELSE LET s0 == [server |-> NewMcpServer, registry |-> registry]
             s1 == RegisterAiOptimizationTools(RegisterPrimaryTools(s0))
             s2 == IF e.lfKey THEN RegisterLocalFalconTools(s1) ELSE s1
         IN  [threw |-> FALSE, message |-> "", server |-> s2.server, registry |-> s2.registry]

(* --------------------------- the wrapped callable ---------------------- *)

\* values a handler resolves with: the provider's parsed JSON payload
HandlerValues == {[t |-> "object", done |-> TRUE], Str("ok")}

\* values a handler throws or rejects with: an Error (a rejected provider call is
\* one), a serialisable non-Error value, a non-Error value JSON cannot serialise
ThrownValues == {ErrorObj("Request failed with status code 500"), Str("boom"), BigIntValue}

Outcomes ==
    {[kind |-> "returns", value |-> v] : v \in HandlerValues}
        \cup {[kind |-> "throws", value |-> v] : v \in ThrownValues}

\* JSON.stringify throws a TypeError on a BigInt
CanStringify(v) == v.t # "bigint"

StringifyError == ErrorObj("Do not know how to serialize a BigInt")

\* JSON.stringify(v, null, 2) of a serialisable value
JSONStringify(v) ==
    CASE v.t = "string" -> "\"" \o v.s \o "\""
      [] v.t = "number" -> ToString(v.n)
      [] v.t = "null" -> "null"
      [] v.t = "object" /\ "done" \in DOMAIN v ->
            "{\n  \"done\": " \o (IF v.done THEN "true" ELSE "false") \o "\n}"
      [] v.t = "errorInfo" ->
            "{\n  \"error\": \"" \o v.error \o "\",\n  \"stack\": \"" \o v.stack \o "\"\n}"
      [] v.t = "unknownError" ->
            "{\n  \"error\": \"" \o v.error \o "\""
                \o (IF v.details = Undefined THEN ""
                    ELSE ",\n  \"details\": " \o
                         (IF v.details.t = "string" THEN "\"" \o v.details.s \o "\""
                          ELSE IF v.details.t = "number" THEN ToString(v.details.n)
                          ELSE "null"))
                \o "\n}"
      [] OTHER -> "{}"

\* { content: [ { type: "text", text } ] }
TextContent(text) == [content |-> <<[type |-> "text", text |-> text]>>]

\* WrappedCallable without its catch: a failure of the handler escapes
WrappedCallableRethrows(outcome) ==
    IF outcome.kind = "returns"
    THEN [threw |-> FALSE, value |-> TextContent(JSONStringify(outcome.value))]
    ELSE [threw |-> TRUE,
          value |-> IF outcome.value.t = "Error" THEN outcome.value ELSE StringifyError]

\* WrappedCallable with text: String(result) in place of JSON.stringify(result)
WrappedCallableUnserialized(outcome) ==
    IF outcome.kind = "returns"
    THEN [threw |-> FALSE,
          value |-> TextContent(IF outcome.value.t = "string" THEN outcome.value.s
                                ELSE "[object Object]")]
    ELSE [threw |-> FALSE, value |-> TextContent("{}")]

\* the callable registerTool hands to server.tool, after its handler settled with
\* `outcome`: what it returns, or the error that escapes it
WrappedCallable(outcome) ==
    LET v == outcome.value
        caught == IF outcome.kind = "throws" THEN v ELSE StringifyError
    IN  IF outcome.kind = "returns" /\ CanStringify(v)
        THEN [threw |-> FALSE, value |-> TextContent(JSONStringify(v))]
        ELSE IF caught.t = "Error"
        THEN [threw |-> FALSE,
              value |-> TextContent(JSONStringify(
                  [t |-> "errorInfo", error |-> caught.message, stack |-> caught.stack]))]
        ELSE IF CanStringify(caught)
        THEN [threw |-> FALSE,
              value |-> TextContent(JSONStringify(
                  [t |-> "unknownError", error |-> "Unknown error occurred",
                   details |-> caught]))]
        ELSE [threw |-> TRUE, value |-> StringifyError]

\* (_context && _context.client) || globalThis.__dataForSeoClient
ClientInstance(context, global) ==
    Or(IF Truthy(context) THEN Get(context, "client") ELSE context, global)

(* --------------------------- schema translation ------------------------ *)

\* zodToJsonSchema(tool.inputSchema, tool.name): the schema sits under
\* definitions[name] and the document refers to it by $ref
ZodToJsonSchema(schema, name) ==
    [ref |-> <<"#", "definitions", name>>,
     definitions |-> [n \in {name} |-> [type |-> "object", properties |-> schema]]]

\* getToolsList without the array fix
FixArrayItemsSkipped(prop) == prop

\* the array fix of getToolsList: an array property without items gets {type: 'string'}
FixArrayItems(prop) ==
    IF prop.type = "array" /\ ~Truthy(prop.items)
    THEN [prop EXCEPT !.items = [t |-> "object", type |-> "string"]]
    ELSE prop

\* one element of getToolsList()
ToolListing(tool) ==
    LET fullSchema == ZodToJsonSchema(tool.inputSchema, tool.name)
        refKey == fullSchema.ref[Len(fullSchema.ref)]
        inputSchema == IF refKey \in DOMAIN fullSchema.definitions
                       THEN fullSchema.definitions[refKey]
                       ELSE [t |-> "object"]
    IN  [name |-> tool.name,
         description |-> IF tool.description # "" THEN tool.description
                         ELSE "DataForSEO API tool: " \o tool.name,
         inputSchema |-> IF "properties" \in DOMAIN inputSchema
                         THEN [inputSchema EXCEPT
                                 !.properties = {FixArrayItems(q) : q \in @}]
                         ELSE inputSchema]

\* getToolsList() skipping the entries that have no description
GetToolsListDescribed(registry) ==
    {ToolListing(registry[n]) : n \in {m \in DOMAIN registry : registry[m].description # ""}}

\* getToolsList(): one listing per registry entry
GetToolsList(registry) == {ToolListing(registry[n]) : n \in DOMAIN registry}

(* ------------------------------ responses ------------------------------ *)

NoResponse == [route |-> "none"]

NoCall == [fn |-> "none"]

NoOutcome == [kind |-> "none"]

Idle == [pc |-> "idle"]

\* `${v}` in a template string
Template(v) ==
    CASE v.t = "string" -> v.s
      [] v.t = "number" -> ToString(v.n)
      [] v.t = "undefined" -> "undefined"
      [] OTHER -> "null"

\* { jsonrpc: '2.0', error: { code, message }, id } as res.json writes it
ErrorJson(code, message, id) ==
    Serialize([jsonrpc |-> Str("2.0"),
               error |-> [code |-> code, message |-> message],
               id |-> id])

\* { jsonrpc: '2.0', result, id } as res.json writes it
ResultJson(result, id) ==
    Serialize([jsonrpc |-> Str("2.0"), result |-> result, id |-> id])

\* the result of the initialize method
InitializeResult ==
    [protocolVersion |-> "2024-11-05",
     capabilities |-> [tools |-> EmptyObj],
     serverInfo |-> [name |-> "DataForSEO MCP Server", version |-> "1.0.0"]]

Reply(status, json) == [status |-> status, json |-> json]

NoReply == [status |-> 0]

\* toolRegistry.get(key): only a string can be a key of the registry
RegistryHas(registry, key) == key.t = "string" /\ key.s \in DOMAIN registry

(* --------------------------- POST /mcp handler ------------------------- *)

\* the synchronous part of app.post('/mcp'): the singleton it leaves behind, the
\* response it sends (NoReply while it awaits a tool handler) and the handler
\* call it has made
McpDispatch(server, registry, e, global, body) ==
    LET g == GetMcpServer(server, registry, e)
        jsonrpc == Get(body, "jsonrpc")
        method == Get(body, "method")
        params == Get(body, "params")
        id == Get(body, "id")
        name == ParamsName(params)
        done(reply) == [server |-> g.server, registry |-> g.registry,
                        reply |-> reply, tool |-> "", call |-> NoCall]
    IN  IF g.threw
        THEN done(Reply(500, Serialize(
                 [jsonrpc |-> Str("2.0"),
                  error |-> [code |-> -32603, message |-> "Internal error",
                             data |-> g.message],
                  id |-> Or(Get(body, "id"), Null)])))
        ELSE IF jsonrpc # Str("2.0")
        THEN done(Reply(400, ErrorJson(-32600, "Invalid Request", Or(id, Null))))
        ELSE IF method = Str("initialize")
        THEN done(Reply(200, ResultJson(InitializeResult, id)))
        ELSE IF method = Str("tools/list")
        THEN done(Reply(200, ResultJson([tools |-> GetToolsList(g.registry)], id)))
        ELSE IF method = Str("tools/call")
        THEN IF ~Truthy(name)
             THEN done(Reply(400, ErrorJson(-32602, "Missing tool name", id)))
             ELSE IF ~RegistryHas(g.registry, name)
             THEN done(Reply(404, ErrorJson(-32601,
                                 "Tool not found: " \o Template(name), id)))
             ELSE [server |-> g.server, registry |-> g.registry,
                   reply |-> NoReply, tool |-> name.s,
                   call |-> HandlerCall(g.registry[name.s].handler,
                                        Or(Get(params, "arguments"), EmptyObj),
                                        ClientInstance(EmptyObj, global))]
        ELSE done(Reply(404, ErrorJson(-32601,
                         "Method not found: " \o Template(method), id)))

\* the rest of the tools/call case, once the awaited tool.handler has settled
McpCallReply(body, outcome) ==
    LET r == WrappedCallable(outcome)
        id == Get(body, "id")
    IN  IF r.threw
        THEN Reply(500, ErrorJson(-32603, r.value.message, id))
        ELSE Reply(200, ResultJson(r.value, id))

(* ------------------------------ HTTP bridge ---------------------------- *)

\* the headers the CORS middleware sets on a response
CorsHeaders ==
    {<<"Access-Control-Allow-Origin", "*">>,
     <<"Access-Control-Allow-Methods", "GET, POST, OPTIONS">>,
     <<"Access-Control-Allow-Headers", "Content-Type, Authorization">>}

NoHeaders == {}

\* what the model keeps of a response: the route, the request it answers, the
\* HTTP status, the JSON written, the handler call made for it (NoCall if none)
\* and how that handler settled (NoOutcome if none ran)
Response(route, req, reply, call, outcome) ==
    [route |-> route, req |-> req, status |-> reply.status, json |-> reply.json,
     call |-> call, outcome |-> outcome,
     headers |-> IF route = "stdio tools/call" THEN NoHeaders ELSE CorsHeaders]

\* what a request leaves in place of req.body when express.json cannot parse it
Unparsable == [t |-> "unparsable"]

\* the error-handling middleware: express.json passes its SyntaxError to next(),
\* which skips every middleware and route registered after it, the one that
\* sets the CORS headers included
ErrorHandlerResponse(route, err) ==
    [route |-> route, req |-> Unparsable, status |-> 500,
     json |-> [error |-> Str("Internal server error"), message |-> Str(err)],
     call |-> NoCall, outcome |-> NoOutcome, headers |-> NoHeaders]

\* the callback of app.listen: pre-initialise the server, log a failure
Listen ==
    /\ entry = "http"
    /\ phase = "boot"
    /\ LET g == GetMcpServer(mcpServer, toolRegistry, env)
       IN  /\ mcpServer' = g.server
           /\ toolRegistry' = g.registry
    /\ phase' = "listening"
    /\ UNCHANGED <<entry, env, dataForSeoClient, inflight, outbox>>
    /\ UNCHANGED clientVars

\* app.post('/mcp') up to its response, or up to the await of the tool handler
PostMcp(slot) ==
    /\ entry = "http"
    /\ phase = "listening"
    /\ inflight[slot] = Idle
    /\ outbox = NoResponse
    /\ \E body \in Bodies :
       LET d == McpDispatch(mcpServer, toolRegistry, env, dataForSeoClient, body)
       IN  /\ mcpServer' = d.server
           /\ toolRegistry' = d.registry
           /\ IF d.reply = NoReply
              THEN /\ inflight' = [inflight EXCEPT ![slot] =
                            [pc |-> "awaiting", via |-> "http", req |-> body,
                             tool |-> d.tool, call |-> d.call]]
                   /\ outbox' = outbox
              ELSE /\ inflight' = inflight
                   /\ outbox' = Response("POST /mcp", body, d.reply, NoCall, NoOutcome)
    /\ UNCHANGED <<entry, env, phase, dataForSeoClient>>
    /\ UNCHANGED clientVars

\* HandlerSettles answering from one request record shared by all calls in
\* flight instead of the request of the call that settled
HandlerSettlesShared(slot) ==
    /\ inflight[slot] # Idle
    /\ inflight[slot].via = "http"
    /\ outbox = NoResponse
    /\ LET first == CHOOSE s \in Slots :
                       inflight[s] # Idle /\ \A o \in Slots : inflight[o] # Idle => s <= o
       IN  \E outcome \in Outcomes :
             outbox' = Response("POST /mcp", inflight[first].req,
                                McpCallReply(inflight[first].req, outcome),
                                inflight[first].call, outcome)
    /\ inflight' = [inflight EXCEPT ![slot] = Idle]
    /\ UNCHANGED <<entry, env, phase, mcpServer, toolRegistry, dataForSeoClient>>
    /\ UNCHANGED clientVars

\* HandlerSettles dropping the request when the handler failed: no response
HandlerSettlesSilent(slot) ==
    /\ inflight[slot] # Idle
    /\ inflight[slot].via = "http"
    /\ outbox = NoResponse
    /\ \E outcome \in Outcomes :
         outbox' = IF outcome.kind = "throws"
                   THEN NoResponse
                   ELSE Response("POST /mcp", inflight[slot].req,
                                 McpCallReply(inflight[slot].req, outcome),
                                 inflight[slot].call, outcome)
    /\ inflight' = [inflight EXCEPT ![slot] = Idle]
    /\ UNCHANGED <<entry, env, phase, mcpServer, toolRegistry, dataForSeoClient>>
    /\ UNCHANGED clientVars

\* the handler of an awaited bridge call settles and the bridge answers
HandlerSettles(slot) ==
    /\ inflight[slot] # Idle
    /\ inflight[slot].via = "http"
    /\ outbox = NoResponse
    /\ \E outcome \in Outcomes :
         outbox' = Response("POST /mcp", inflight[slot].req,
                            McpCallReply(inflight[slot].req, outcome), inflight[slot].call,
                            outcome)
    /\ inflight' = [inflight EXCEPT ![slot] = Idle]
    /\ UNCHANGED <<entry, env, phase, mcpServer, toolRegistry, dataForSeoClient>>
    /\ UNCHANGED clientVars

\* a POST /mcp whose body express.json cannot parse: no route runs
PostMcpUnparsable ==
    /\ entry = "http"
    /\ phase = "listening"
    /\ outbox = NoResponse
    /\ outbox' = ErrorHandlerResponse("POST /mcp", "Unexpected end of JSON input")
    /\ UNCHANGED <<entry, env, phase, mcpServer, toolRegistry, dataForSeoClient, inflight>>
    /\ UNCHANGED clientVars

\* an OPTIONS request: the CORS middleware answers it, unless it carries a JSON
\* body that express.json cannot parse
Options ==
    /\ entry = "http"
    /\ phase = "listening"
    /\ outbox = NoResponse
    /\ \E parses \in BOOLEAN :
         outbox' = IF parses
                   THEN Response("OPTIONS", EmptyObj, Reply(200, Str("OK")), NoCall, NoOutcome)
                   ELSE ErrorHandlerResponse("OPTIONS", "Unexpected end of JSON input")
    /\ UNCHANGED <<entry, env, phase, mcpServer, toolRegistry, dataForSeoClient, inflight>>
    /\ UNCHANGED clientVars

\* the reply of app.get('/tools')
ToolsReply(g) ==
    IF g.threw
    THEN Reply(500, [error |-> "Failed to list tools", message |-> g.message])
    ELSE Reply(200, [jsonrpc |-> Str("2.0"),
                     result |-> [tools |-> GetToolsList(g.registry)]])

\* app.get('/tools') with the array fix applied to the registry's own schema
\* objects instead of the translated copies
GetToolsFixingInPlace ==
    /\ entry = "http"
    /\ phase = "listening"
    /\ outbox = NoResponse
    /\ LET g == GetMcpServer(mcpServer, toolRegistry, env)
       IN  /\ mcpServer' = g.server
           /\ toolRegistry' = [n \in DOMAIN g.registry |->
                                 [g.registry[n] EXCEPT
                                    !.inputSchema = {FixArrayItems(q) : q \in @}]]
           /\ outbox' = Response("GET /tools", EmptyObj, ToolsReply(g), NoCall, NoOutcome)
    /\ UNCHANGED <<entry, env, phase, dataForSeoClient, inflight>>
    /\ UNCHANGED clientVars

\* app.get('/tools')
GetTools ==
    /\ entry = "http"
    /\ phase = "listening"
    /\ outbox = NoResponse
    /\ LET g == GetMcpServer(mcpServer, toolRegistry, env)
       IN  /\ mcpServer' = g.server
           /\ toolRegistry' = g.registry
           /\ outbox' = Response("GET /tools", EmptyObj, ToolsReply(g), NoCall, NoOutcome)
    /\ UNCHANGED <<entry, env, phase, dataForSeoClient, inflight>>
    /\ UNCHANGED clientVars

\* app.get('/health') reporting 503 while the server singleton is not initialised
HealthReplyUnready ==
    Reply(IF mcpServer = Null THEN 503 ELSE 200,
          [status |-> IF mcpServer = Null THEN "unhealthy" ELSE "healthy",
           timestamp |-> "now", service |-> "dataforseo-mcp-server", version |-> "1.0.0"])

\* the body of app.get('/health'); the timestamp is the time of the answer
HealthReply ==
    Reply(200, [status |-> "healthy", timestamp |-> "now",
                service |-> "dataforseo-mcp-server", version |-> "1.0.0"])

\* app.get('/health')
GetHealth ==
    /\ entry = "http"
    /\ phase = "listening"
    /\ outbox = NoResponse
    /\ outbox' = Response("GET /health", EmptyObj, HealthReply, NoCall, NoOutcome)
    /\ UNCHANGED <<entry, env, phase, mcpServer, toolRegistry, dataForSeoClient, inflight>>
    /\ UNCHANGED clientVars

\* the body of app.get('/')
RootReply ==
    Reply(200, [name |-> "DataForSEO MCP Server", version |-> "1.0.0",
                endpoints |-> {"/health", "/mcp", "/tools"}])

\* app.get('/')
GetRoot ==
    /\ entry = "http"
    /\ phase = "listening"
    /\ outbox = NoResponse
    /\ outbox' = Response("GET /", EmptyObj, RootReply, NoCall, NoOutcome)
    /\ UNCHANGED <<entry, env, phase, mcpServer, toolRegistry, dataForSeoClient, inflight>>
    /\ UNCHANGED clientVars

\* the response has been written out to the client
ClientReceives ==
    /\ outbox # NoResponse
    /\ outbox' = NoResponse
    /\ UNCHANGED <<entry, env, phase, mcpServer, toolRegistry, dataForSeoClient, inflight>>
    /\ UNCHANGED clientVars

(* ---------------------------- standard I/O ---------------------------- *)

\* setupApiClient(login, password)
ApiClient == [t |-> "DataForSeoClient"]

\* the tool calls a standard-I/O client may send
StdioNames == {"x_post", "x_get", "x_ready", "nope"}

\* the arguments {keyword: "seo", tags: [...], ids: [...]}
PostArgs ==
    [t |-> "object", keyword |-> Str("seo"), tags |-> [t |-> "array"], ids |-> [t |-> "array"]]

StdioArguments == {EmptyObj, ArgsObj(Str("123")), ArgsObj(Num(7)), PostArgs}

\* the input validation server.tool(name, schema, cb) sets up: every property of
\* the shape is required and must have the declared type
Validates(schema, args) == \A q \in schema : Get(args, q.prop).t = q.type

\* main() of src/index.ts, up to server.connect(transport): it registers the
\* primary provider's categories only and sets no global client
IndexMain ==
    /\ entry = "index"
    /\ phase = "boot"
    /\ IF ~env.login \/ ~env.password
       THEN /\ phase' = "exited"
            /\ UNCHANGED <<mcpServer, toolRegistry>>
       ELSE LET s0 == [server |-> NewMcpServer, registry |-> toolRegistry]
                s1 == RegisterPrimaryTools(s0)
            IN  /\ mcpServer' = s1.server
                /\ toolRegistry' = s1.registry
                /\ phase' = "connected"
    /\ UNCHANGED <<entry, env, dataForSeoClient, inflight, outbox>>
    /\ UNCHANGED clientVars

\* main() of the standard-I/O server with the Local Falcon integration, up to
\* server.connect(transport)
StdioMain ==
    /\ entry = "main"
    /\ phase = "boot"
    /\ IF ~env.login \/ ~env.password
       THEN /\ phase' = "exited"
            /\ UNCHANGED <<mcpServer, toolRegistry, dataForSeoClient>>
       ELSE LET s0 == [server |-> NewMcpServer, registry |-> toolRegistry]
                s1 == RegisterPrimaryTools(s0)
                s2 == IF env.lfKey THEN RegisterLocalFalconTools(s1) ELSE s1
            IN  /\ dataForSeoClient' = ApiClient
                /\ mcpServer' = s2.server
                /\ toolRegistry' = s2.registry
                /\ phase' = "connected"
    /\ UNCHANGED <<entry, env, inflight, outbox>>
    /\ UNCHANGED clientVars

\* a tools/call frame on the standard-I/O transport: the server answers an unknown
\* tool or invalid arguments itself, and otherwise runs the wrapped callable
StdioCallTool(slot) ==
    /\ entry \in {"index", "main"}
    /\ phase = "connected"
    /\ inflight[slot] = Idle
    /\ outbox = NoResponse
    /\ \E name \in StdioNames, args \in StdioArguments :
       LET req == [t |-> "object", name |-> Str(name), arguments |-> args]
       IN  IF name \notin mcpServer.tools
           THEN /\ outbox' = Response("stdio tools/call", req,
                                      Reply(0, [error |-> "Tool not found"]), NoCall, NoOutcome)
                /\ inflight' = inflight
           ELSE IF ~Validates(toolRegistry[name].inputSchema, args)
           THEN /\ outbox' = Response("stdio tools/call", req,
                                      Reply(0, [error |-> "Invalid arguments"]), NoCall, NoOutcome)
                /\ inflight' = inflight
           ELSE /\ inflight' = [inflight EXCEPT ![slot] =
                        [pc |-> "awaiting", via |-> "stdio", req |-> req, tool |-> name,
                         call |-> HandlerCall(toolRegistry[name].handler, args,
                                              ClientInstance(EmptyObj, dataForSeoClient))]]
                /\ outbox' = outbox
    /\ UNCHANGED <<entry, env, phase, mcpServer, toolRegistry, dataForSeoClient>>
    /\ UNCHANGED clientVars

\* the handler of an awaited standard-I/O call settles and the server answers
StdioHandlerSettles(slot) ==
    /\ inflight[slot] # Idle
    /\ inflight[slot].via = "stdio"
    /\ outbox = NoResponse
    /\ \E outcome \in Outcomes :
       LET r == WrappedCallable(outcome)
       IN  outbox' = Response("stdio tools/call", inflight[slot].req,
                              Reply(0, IF r.threw THEN [error |-> r.value.message]
                                       ELSE [result |-> r.value]),
                              inflight[slot].call, outcome)
    /\ inflight' = [inflight EXCEPT ![slot] = Idle]
    /\ UNCHANGED <<entry, env, phase, mcpServer, toolRegistry, dataForSeoClient>>
    /\ UNCHANGED clientVars

(* ---------------------------- provider client -------------------------- *)

\* provider-relative paths handlers call
Paths == {"/serp/task_post", "/serp/tasks_ready"}

\* the body of a post
PostBody == [t |-> "object", keyword |-> Str("test")]

\* client.get(path) and client.post(path, data) as calls
GetCall(path) == [method |-> "GET", path |-> path, body |-> Undefined]

PostCall(path, data) == [method |-> "POST", path |-> path, body |-> data]

\* a provider envelope reporting success, and one reporting an error code
OkEnvelope == [t |-> "object", status_code |-> 20000, result |-> "success"]

ErrorEnvelope == [t |-> "object", status_code |-> 40501, status_message |-> "Invalid Field"]

\* an error of the HTTP transport: with the provider's response when the status
\* was not 2xx, without one when no response arrived
AxiosError(message, response) == [t |-> "AxiosError", message |-> message, response |-> response]

\* what the HTTP transport makes of one round trip: a 2xx response with its
\* data, or a rejection with its error
TransportResults ==
    {[kind |-> "response", status |-> 200, data |-> OkEnvelope],
     [kind |-> "response", status |-> 200, data |-> ErrorEnvelope],
     [kind |-> "error",
      error |-> AxiosError("Request failed with status code 500",
                           [status |-> 500, data |-> [error |-> "API error message"]])],
     [kind |-> "error", error |-> AxiosError("Connection timeout", Undefined)],
     [kind |-> "error", error |-> ErrorObj("Network error")]}

\* the envelope of a 2xx response carries a provider-reported error code
ProviderReportsError(data) == data.status_code >= 40000

\* the diagnostic line logged before a failure is propagated: the structured
\* payload of the provider when there is one, else the raw error text
ClientErrorLog(call, detail) ==
    [line |-> "DataForSEO API " \o call.method \o " error (" \o call.path \o "):",
     detail |-> detail]

\* the requests a call sends when it is made, answering repeated GETs from a cache
ClientSendCached(call, earlier) ==
    IF call.method = "GET" /\ \E i \in 1..Len(earlier) : earlier[i] = call
    THEN <<>>
    ELSE <<call>>

\* the requests a call sends when it is made: one, with the caller's path and body
ClientSend(call, earlier) == <<call>>

\* get/post resolving with the data of every 2xx response
ClientSettleUnchecked(call, result) ==
    IF result.kind = "response"
    THEN [call |-> call, result |-> result, kind |-> "resolves", value |-> result.data,
          logged |-> Undefined]
    ELSE [call |-> call, result |-> result, kind |-> "rejects", value |-> result.error,
          logged |-> ClientErrorLog(call, result.error.message)]

\* how get/post settle once the transport has settled
ClientSettle(call, result) ==
    IF result.kind = "response" /\ ~ProviderReportsError(result.data)
    THEN [call |-> call, result |-> result, kind |-> "resolves", value |-> result.data,
          logged |-> Undefined]
    ELSE IF result.kind = "response"
    THEN [call |-> call, result |-> result, kind |-> "rejects", value |-> result.data,
          logged |-> ClientErrorLog(call, result.data)]
    ELSE [call |-> call, result |-> result, kind |-> "rejects", value |-> result.error,
          logged |-> ClientErrorLog(call,
                        IF result.error.t = "AxiosError" /\ result.error.response # Undefined
                        THEN result.error.response.data
                        ELSE result.error.message)]

\* client.get(path): the request goes out and the call awaits the response
ClientGet ==
    /\ dataForSeoClient = ApiClient
    /\ pendingCall = 0
    /\ Len(clientCalls) < MaxCalls
    /\ \E path \in Paths :
          /\ clientCalls' = Append(clientCalls, GetCall(path))
          /\ upstream' = upstream \o ClientSend(GetCall(path), clientCalls)
    /\ pendingCall' = Len(clientCalls) + 1
    /\ UNCHANGED clientOutcomes
    /\ UNCHANGED <<entry, env, phase, mcpServer, toolRegistry, dataForSeoClient, inflight, outbox>>

\* client.post(path, data): the request goes out and the call awaits the response
ClientPost ==
    /\ dataForSeoClient = ApiClient
    /\ pendingCall = 0
    /\ Len(clientCalls) < MaxCalls
    /\ \E path \in Paths :
          /\ clientCalls' = Append(clientCalls, PostCall(path, PostBody))
          /\ upstream' = upstream \o ClientSend(PostCall(path, PostBody), clientCalls)
    /\ pendingCall' = Len(clientCalls) + 1
    /\ UNCHANGED clientOutcomes
    /\ UNCHANGED <<entry, env, phase, mcpServer, toolRegistry, dataForSeoClient, inflight, outbox>>

\* the round trip ends and the pending call settles; nothing is sent again
TransportSettles ==
    /\ pendingCall # 0
    /\ \E result \in TransportResults :
          clientOutcomes' = Append(clientOutcomes, ClientSettle(clientCalls[pendingCall], result))
    /\ pendingCall' = 0
    /\ UNCHANGED <<clientCalls, upstream>>
    /\ UNCHANGED <<entry, env, phase, mcpServer, toolRegistry, dataForSeoClient, inflight, outbox>>

\* the standard-I/O server after its start-up, before any provider call
ClientInit ==
    /\ entry = "main"
    /\ env = [login |-> TRUE, password |-> TRUE, lfKey |-> FALSE,
              enabledModules |-> Undefined, enabledTools |-> Undefined]
    /\ phase = "connected"
    /\ LET s1 == RegisterPrimaryTools([server |-> NewMcpServer, registry |-> EmptyRegistry])
       IN  mcpServer = s1.server /\ toolRegistry = s1.registry
    /\ dataForSeoClient = ApiClient
    /\ inflight = [s \in Slots |-> Idle]
    /\ outbox = NoResponse
    /\ clientCalls = <<>>
    /\ upstream = <<>>
    /\ pendingCall = 0
    /\ clientOutcomes = <<>>

ClientNext == ClientGet \/ ClientPost \/ TransportSettles

ClientSpec == ClientInit /\ [][ClientNext]_vars

(* ------------------------- registration calls -------------------------- *)

\* names, shapes and handlers a category module may pass to the helpers
RegisterNames == {"k_live", "x_get", "y_live"}

RegisterSchemas == {EmptySchema, IdSchema}

RegisterHandlers == {"k.liveHandler", "x.getHandler"}

\* start-up after new McpServer(...), before the first register call
RegistryInit ==
    /\ entry = "index"
    /\ env = [login |-> TRUE, password |-> TRUE, lfKey |-> FALSE,
              enabledModules |-> Undefined, enabledTools |-> Undefined]
    /\ phase = "boot"
    /\ mcpServer = NewMcpServer
    /\ toolRegistry = EmptyRegistry
    /\ dataForSeoClient = Undefined
    /\ inflight = [s \in Slots |-> Idle]
    /\ outbox = NoResponse
    /\ clientCalls = <<>>
    /\ upstream = <<>>
    /\ pendingCall = 0
    /\ clientOutcomes = <<>>

\* a category module calls registerTool(server, name, schema, handler)
RegisterToolCall ==
    /\ phase = "boot"
    /\ \E name \in RegisterNames, schema \in RegisterSchemas, fn \in RegisterHandlers :
         LET st == RegisterTool([server |-> mcpServer, registry |-> toolRegistry],
                                name, schema, Handler(fn))
         IN  /\ mcpServer' = st.server
             /\ toolRegistry' = st.registry
    /\ UNCHANGED <<entry, env, phase, dataForSeoClient, inflight, outbox>>
    /\ UNCHANGED clientVars

\* a category module calls registerTaskTool(server, "x", ...)
RegisterTaskToolCall ==
    /\ phase = "boot"
    /\ \E schema \in RegisterSchemas :
         LET st == RegisterTaskTool([server |-> mcpServer, registry |-> toolRegistry],
                                    "x", schema, "x.postHandler", "x.readyHandler",
                                    "x.getHandler")
         IN  /\ mcpServer' = st.server
             /\ toolRegistry' = st.registry
    /\ UNCHANGED <<entry, env, phase, dataForSeoClient, inflight, outbox>>
    /\ UNCHANGED clientVars

RegistryNext == RegisterToolCall \/ RegisterTaskToolCall

RegistrySpec == RegistryInit /\ [][RegistryNext]_vars

(* ---------------------------- specification ---------------------------- *)

\* ENABLED_MODULES=" labs" and ENABLED_TOOLS="X_Get , lf_scan"
ModulesLabs == EnvString(<<" ", "l", "a", "b", "s">>)

ToolsGetAndScan ==
    EnvString(<<"X", "_", "G", "e", "t", " ", ",", " ", "l", "f", "_", "s", "c", "a", "n">>)

\* the environments a process is started in: every combination of the three
\* credentials with no allow-list, and, with all credentials set, both
\* allow-lists set and both allow-lists empty
Environments ==
    {[login |-> l, password |-> p, lfKey |-> k,
      enabledModules |-> Undefined, enabledTools |-> Undefined] :
        l \in BOOLEAN, p \in BOOLEAN, k \in BOOLEAN}
    \cup {[login |-> TRUE, password |-> TRUE, lfKey |-> TRUE,
           enabledModules |-> ModulesLabs, enabledTools |-> ToolsGetAndScan],
          [login |-> TRUE, password |-> TRUE, lfKey |-> TRUE,
           enabledModules |-> EnvString(<<>>), enabledTools |-> EnvString(<<>>)]}


Init ==
    /\ entry \in {"http", "index", "main"}
    /\ env \in Environments
    /\ phase = "boot"
    /\ mcpServer = Null
    /\ toolRegistry = EmptyRegistry
    /\ dataForSeoClient = Undefined
    /\ inflight = [s \in Slots |-> Idle]
    /\ outbox = NoResponse
    /\ clientCalls = <<>>
    /\ upstream = <<>>
    /\ pendingCall = 0
    /\ clientOutcomes = <<>>

Next ==
    \/ Listen
    \/ \E slot \in Slots : PostMcp(slot)
    \/ \E slot \in Slots : HandlerSettles(slot)
    \/ PostMcpUnparsable
    \/ Options
    \/ GetTools
    \/ GetHealth
    \/ GetRoot
    \/ ClientReceives
    \/ IndexMain
    \/ StdioMain
    \/ \E slot \in Slots : StdioCallTool(slot)
    \/ \E slot \in Slots : StdioHandlerSettles(slot)

Spec == Init /\ [][Next]_vars

(* ------------------- the bridge under fair scheduling ------------------ *)

\* the requests of a client that lists tools and calls them: jsonrpc 2.0,
\* tools/list or tools/call, a known or an unknown name, with arguments and an id
BridgeBodies ==
    {body \in Bodies :
        /\ Get(body, "jsonrpc") = Str("2.0")
        /\ Get(body, "method") \in {Str("tools/list"), Str("tools/call")}
        /\ Get(body, "id") \in {Num(0), Num(1)}
        /\ ParamsName(Get(body, "params")) \in {Str("x_get"), Str("nope")}
        /\ Get(Get(body, "params"), "arguments") # Undefined}

BridgeInit == Init /\ entry = "http"

\* app.post('/mcp') for the requests of BridgeBodies
PostMcpRequest(slot) ==
    /\ entry = "http"
    /\ phase = "listening"
    /\ inflight[slot] = Idle
    /\ outbox = NoResponse
    /\ \E body \in BridgeBodies :
       LET d == McpDispatch(mcpServer, toolRegistry, env, dataForSeoClient, body)
       IN  /\ mcpServer' = d.server
           /\ toolRegistry' = d.registry
           /\ IF d.reply = NoReply
              THEN /\ inflight' = [inflight EXCEPT ![slot] =
                            [pc |-> "awaiting", via |-> "http", req |-> body,
                             tool |-> d.tool, call |-> d.call]]
                   /\ outbox' = outbox
              ELSE /\ inflight' = inflight
                   /\ outbox' = Response("POST /mcp", body, d.reply, NoCall, NoOutcome)
    /\ UNCHANGED <<entry, env, phase, dataForSeoClient>>
    /\ UNCHANGED clientVars

BridgeNext ==
    \/ Listen
    \/ \E slot \in Slots : PostMcpRequest(slot)
    \/ \E slot \in Slots : HandlerSettles(slot)
    \/ ClientReceives

\* the scheduling of the event loop: a response that was written is delivered,
\* and the continuation of a handler whose upstream call resolved or rejected
\* is run
BridgeFairness ==
    /\ WF_vars(ClientReceives)
    /\ \A slot \in Slots : SF_vars(HandlerSettles(slot))

FairSpec == BridgeInit /\ [][BridgeNext]_vars /\ BridgeFairness

(* ------------------------------- claims -------------------------------- *)

\* the response in the outbox is the answer of the POST /mcp route
AnswersMcp == outbox.route = "POST /mcp" /\ outbox.req # Unparsable

ReqJsonRpc == Get(outbox.req, "jsonrpc")

ReqMethod == Get(outbox.req, "method")

ReqParams == Get(outbox.req, "params")

ReqId == Get(outbox.req, "id")

\* the code of the error member of the response, 0 when it has none
ErrorCode == IF "error" \in DOMAIN outbox.json THEN outbox.json.error.code ELSE 0

\* the response is a JSON-RPC error with this HTTP status and this code
AnsweredError(status, code) == outbox.status = status /\ ErrorCode = code

\* C1: on POST /mcp a request whose jsonrpc is not "2.0" is answered 400 with
\* code -32600, whatever else it holds and whatever the state of the process
C1_InvalidRequestRejected ==
    (AnswersMcp /\ ReqJsonRpc # Str("2.0")) => AnsweredError(400, -32600)

\* C2: a jsonrpc 2.0 tools/call whose params.name is not a key of the registry is
\* answered 404 with code -32601 and no handler is invoked
C2_UnknownToolNotFound ==
    (/\ AnswersMcp
     /\ ReqJsonRpc = Str("2.0")
     /\ ReqMethod = Str("tools/call")
     /\ ParamsName(ReqParams) # Undefined
     /\ ~RegistryHas(toolRegistry, ParamsName(ReqParams)))
        => (AnsweredError(404, -32601) /\ outbox.call = NoCall)

\* C3: a jsonrpc 2.0 tools/call with params absent or params.name absent is
\* answered 400 with code -32602 and no handler is invoked
C3_MissingNameRejected ==
    (/\ AnswersMcp
     /\ ReqJsonRpc = Str("2.0")
     /\ ReqMethod = Str("tools/call")
     /\ ParamsName(ReqParams) = Undefined)
        => (AnsweredError(400, -32602) /\ outbox.call = NoCall)

\* C4: a jsonrpc 2.0 request whose method is none of initialize, tools/list and
\* tools/call is answered 404 with code -32601 and no handler is invoked
C4_UnknownMethodNotFound ==
    (/\ AnswersMcp
     /\ ReqJsonRpc = Str("2.0")
     /\ ReqMethod \notin {Str("initialize"), Str("tools/list"), Str("tools/call")})
        => (AnsweredError(404, -32601) /\ outbox.call = NoCall)

\* C5: every response of POST /mcp carries the id of its request unchanged, and
\* id null when the request had none
C5_IdEchoed ==
    AnswersMcp =>
        Get(outbox.json, "id") = (IF ReqId = Undefined THEN Null ELSE ReqId)

\* the response in the outbox answers a tools/call whose handler threw
AnswersThrow == AnswersMcp /\ outbox.outcome.kind = "throws"

\* the response is a JSON-RPC result holding exactly one text block
SingleTextResult ==
    /\ outbox.status = 200
    /\ "result" \in DOMAIN outbox.json
    /\ "error" \notin DOMAIN outbox.json
    /\ Len(outbox.json.result.content) = 1
    /\ outbox.json.result.content[1].type = "text"

C7_FailureBecomesContent == AnswersThrow => SingleTextResult

\* C8: a tools/call whose handler returns v is answered 200 with exactly one text
\* block holding the JSON serialisation of v and with the request's id, and the
\* handler registered under the name was invoked with the request's arguments
C8_SuccessWrapped ==
    (AnswersMcp /\ outbox.outcome.kind = "returns") =>
        /\ SingleTextResult
        /\ outbox.json.result.content[1].text =
              (IF outbox.outcome.value = Str("ok") THEN "\"ok\""
               ELSE "{\n  \"done\": true\n}")
        /\ Get(outbox.json, "id") = ReqId
        /\ outbox.call # NoCall
        /\ outbox.call.handler = toolRegistry[ParamsName(ReqParams).s].handler
        /\ Get(ReqParams, "arguments") # Undefined
              => outbox.call.params = Get(ReqParams, "arguments")

C8_Witness ==
    /\ AnswersMcp
    /\ outbox.outcome.kind = "returns"
    /\ outbox.status = 200
    /\ outbox.call.params = ArgsObj(Str("123"))
    /\ ReqId = Num(1)

\* the tool names a response lists (none when it is an error)
ListedTools ==
    IF "result" \in DOMAIN outbox.json /\ "tools" \in DOMAIN outbox.json.result
    THEN outbox.json.result.tools ELSE {}

\* the response answers tools/list on POST /mcp, or GET /tools
AnswersListing ==
    \/ outbox.route = "GET /tools"
    \/ AnswersMcp /\ ReqJsonRpc = Str("2.0") /\ ReqMethod = Str("tools/list")

\* C9: tools/list and GET /tools both return exactly the keys of the registry,
\* each with a non-null input schema, and the keys do not change while the
\* bridge listens, so the two listings agree
C9_ListingsAgree ==
    /\ [](AnswersListing =>
            /\ {tl.name : tl \in ListedTools} = DOMAIN toolRegistry
            /\ \A tl \in ListedTools :
                  tl.inputSchema \notin {Null, Undefined} /\ tl.inputSchema.type = "object")
    /\ [][phase = "listening" => DOMAIN toolRegistry' = DOMAIN toolRegistry]_vars

C9_Witness ==
    /\ AnswersMcp /\ ReqMethod = Str("tools/list") /\ outbox.status = 200
    /\ "lf_scan" \in {tl.name : tl \in ListedTools}

\* C10: no call reaches a tool's handler, on either transport, with arguments
\* that do not satisfy the tool's input schema
C10_ArgumentsValidated ==
    \A slot \in Slots :
        inflight[slot] # Idle =>
            Validates(toolRegistry[inflight[slot].tool].inputSchema,
                      inflight[slot].call.params)

\* a credential of the primary provider is missing from the environment
CredentialsMissing == ~env.login \/ ~env.password

\* C11: when the login or the password is missing the process never accepts a
\* request: it registers no tool, never listens or connects, answers nothing
C11_NoServiceWithoutCredentials ==
    CredentialsMissing =>
        /\ phase \notin {"listening", "connected"}
        /\ DOMAIN toolRegistry = {}
        /\ outbox = NoResponse

\* the response in the outbox answers GET /health
AnswersHealth == outbox.route = "GET /health"

\* C12: GET /health is answered 200 with status, timestamp, service and version
\* whether the singleton is initialised or its initialisation failed, the
\* bridge can always answer it, and answering it leaves the singleton alone
C12_HealthAlways200 ==
    /\ [](AnswersHealth =>
            /\ outbox.status = 200
            /\ DOMAIN outbox.json = {"status", "timestamp", "service", "version"}
            /\ outbox.json.status = "healthy")
    /\ []((entry = "http" /\ phase = "listening" /\ outbox = NoResponse)
            => ENABLED GetHealth)
    /\ [][(AnswersHealth' /\ ~AnswersHealth) =>
            (mcpServer' = mcpServer /\ toolRegistry' = toolRegistry)]_vars

C12_Witness ==
    AnswersHealth /\ outbox.status = 200 /\ mcpServer = Null /\ CredentialsMissing

\* C13: every jsonrpc 2.0 initialize request is answered 200 with the negotiation
\* result, with or without credentials and whatever the registry holds
C13_InitializeUnconditional ==
    (AnswersMcp /\ ReqJsonRpc = Str("2.0") /\ ReqMethod = Str("initialize")) =>
        /\ outbox.status = 200
        /\ "result" \in DOMAIN outbox.json
        /\ outbox.json.result = InitializeResult

\* start-up has completed and the transport accepts requests
Started == phase \in {"listening", "connected"} /\ ~CredentialsMissing

\* the tools the primary provider's categories declare
PrimaryTools == {"k_live", "x_post", "x_ready", "x_get"}

\* C14: with the module allow-list set the registry holds only tools of the
\* listed categories (letter case and whitespace around the commas ignored);
\* with the variable unset or empty the tools of every category are there
C14_ModuleAllowList ==
    Started =>
        LET enabledModules == ParseEnabledModules(env.enabledModules)
        IN  IF enabledModules.t = "null"
            THEN PrimaryTools \subseteq DOMAIN toolRegistry
            ELSE \A n \in DOMAIN toolRegistry :
                    IsModuleEnabled(ToolModule(n), enabledModules)

\* the tools an entry point declares when nothing is filtered
DeclaredTools ==
    PrimaryTools
        \cup (IF entry = "http" THEN {"ai_live"} ELSE {})
        \cup (IF entry # "index" /\ env.lfKey THEN {"lf_scan"} ELSE {})

\* C15: with the tool allow-list set the registry holds exactly the declared
\* tools whose lower-cased name is a trimmed, lower-cased entry of the list,
\* whatever the module allow-list; unset or empty, it excludes nothing
C15_ToolAllowList ==
    Started =>
        LET enabledTools == ParseEnabledTools(env.enabledTools)
        IN  DOMAIN toolRegistry = {n \in DeclaredTools : IsToolEnabled(n, enabledTools)}

\* C16: on every entry point the secondary provider's tool group is registered
\* exactly when its API key is configured, and the primary provider's tools are
\* registered in both cases
C16_SecondaryIffKey ==
    Started =>
        /\ ("lf_scan" \in DOMAIN toolRegistry) <=> env.lfKey
        /\ PrimaryTools \subseteq DOMAIN toolRegistry

\* the three tools registerTaskTool declares for the base name "x"
TaskTools == {"x_post", "x_ready", "x_get"}

\* the registry entry registerTool makes
RegistryEntry(name, schema, handler) ==
    [name |-> name, description |-> "", inputSchema |-> schema, handler |-> handler]

\* C17: registerTaskTool("x", ...) adds exactly x_post, x_ready and x_get, each
\* through registerTool: x_post has the post schema and calls postHandler with the
\* caller's params, x_ready accepts no fields and calls readyHandler with no
\* params, x_get requires a string id and calls getHandler with that id; the
\* tools registered before and after it are neither lost nor changed
C17_TaskToolTriple ==
    Started =>
        /\ DOMAIN toolRegistry \ {"k_live", "ai_live", "lf_scan"} = TaskTools
        /\ mcpServer.tools = DOMAIN toolRegistry
        /\ toolRegistry["x_post"].inputSchema = PostSchema
        /\ toolRegistry["x_ready"].inputSchema = {}
        /\ toolRegistry["x_get"].inputSchema =
              {[prop |-> "id", type |-> "string", items |-> Undefined]}
        /\ \A n \in TaskTools : toolRegistry[n].name = n
        /\ toolRegistry["k_live"] = RegistryEntry("k_live", {}, Handler("k.liveHandler"))
        /\ \A slot \in Slots :
              inflight[slot] # Idle =>
                 LET c == inflight[slot].call
                     tool == inflight[slot].tool
                 IN  /\ tool = "x_post" =>
                            c.fn = "x.postHandler" /\ c.args = <<c.params, c.client>>
                     /\ tool = "x_ready" =>
                            c.fn = "x.readyHandler" /\ c.args = <<c.client>>
                     /\ tool = "x_get" =>
                            c.fn = "x.getHandler" /\ c.args = <<Get(c.params, "id"), c.client>>
                     /\ (tool = "x_get" /\ inflight[slot].via = "stdio") =>
                            c.args[1].t = "string"

C17_Witness ==
    /\ Started
    /\ \E slot \in Slots :
          /\ inflight[slot] # Idle
          /\ inflight[slot].tool = "x_post"
          /\ inflight[slot].call.params = PostArgs
    /\ \E slot \in Slots :
          /\ inflight[slot] # Idle
          /\ inflight[slot].tool = "x_get"
          /\ inflight[slot].call.args[1] = Str("123")

\* the property of the registered (source) schema that a listed property comes from
SourceProperty(tool, prop) ==
    CHOOSE q \in toolRegistry[tool].inputSchema : q.prop = prop

CallSucceeded(result) ==
    result.kind = "response" /\ result.status = 200 /\ result.data.status_code = 20000

\* C18: get and post resolve, with the data of the transport response, only when
\* the call succeeded; on a network failure, a non-2xx status or a provider error
\* code inside a 2xx envelope they reject with the original error value
C18_RejectsEveryFailure ==
    \A i \in 1..Len(clientOutcomes) :
        LET o == clientOutcomes[i]
        IN  IF CallSucceeded(o.result)
            THEN o.kind = "resolves" /\ o.value = o.result.data
            ELSE /\ o.kind = "rejects"
                 /\ o.value = (IF o.result.kind = "error" THEN o.result.error
                               ELSE o.result.data)

C18_Witness ==
    /\ Len(clientOutcomes) = 3
    /\ clientOutcomes[1].kind = "rejects" /\ clientOutcomes[1].result.kind = "response"
    /\ clientOutcomes[2].kind = "rejects" /\ clientOutcomes[2].value = ErrorObj("Network error")
    /\ clientOutcomes[3].kind = "resolves" /\ clientOutcomes[3].call.method = "POST"

\* C19: every get or post performs exactly one upstream request, with the
\* caller's path and body, whether it succeeds or fails: n calls, n requests
C19_OneRoundTripPerCall ==
    /\ Len(upstream) = Len(clientCalls)
    /\ \A i \in 1..Len(clientCalls) :
          /\ upstream[i].method = clientCalls[i].method
          /\ upstream[i].path = clientCalls[i].path
          /\ upstream[i].body = clientCalls[i].body

C19_Witness ==
    /\ Len(clientCalls) = 3 /\ Len(upstream) = 3 /\ Len(clientOutcomes) = 3
    /\ clientCalls[1] = clientCalls[2] /\ clientCalls[1].method = "GET"
    /\ clientOutcomes[1].kind = "resolves"
    /\ clientOutcomes[2].kind = "rejects"
    /\ clientCalls[3] = clientCalls[2]

\* the response in the outbox answers a POST /mcp whose body could not be parsed
AnswersUnparsable == outbox.route = "POST /mcp" /\ outbox.req = Unparsable

\* C21: a POST /mcp whose body is not valid JSON is answered with a JSON-RPC
\* error object whose code is the parse-error code -32700, and the bridge goes
\* on listening
C21_ParseErrorStructured ==
    AnswersUnparsable =>
        /\ Get(outbox.json, "jsonrpc") = Str("2.0")
        /\ "error" \in DOMAIN outbox.json
        /\ "code" \in DOMAIN outbox.json.error
        /\ outbox.json.error.code = -32700
        /\ phase = "listening"

\* C22: every response of the HTTP bridge carries the three CORS headers, also
\* one sent before a route runs, and an OPTIONS request is answered 200 by the
\* middleware without a handler call
C22_CorsOnEveryResponse ==
    (entry = "http" /\ outbox # NoResponse) =>
        /\ outbox.headers = CorsHeaders
        /\ outbox.route = "OPTIONS" => (outbox.status = 200 /\ outbox.call = NoCall)

\* C23: whenever a wrapped callable invokes its handler, on either transport,
\* the client it passes is the provider client constructed at startup, never
\* an undefined value
C23_ClientNeverUndefined ==
    \A slot \in Slots :
        inflight[slot] # Idle => inflight[slot].call.client = ApiClient

\* the names getMcpServer registers in environment e
BridgeTools(e) ==
    PrimaryTools \cup {"ai_live"} \cup (IF e.lfKey THEN {"lf_scan"} ELSE {})

\* the singleton of the bridge holds a server with every tool registered on it
FullyRegistered ==
    /\ mcpServer # Null
    /\ mcpServer.tools = BridgeTools(env)
    /\ DOMAIN toolRegistry = BridgeTools(env)

\* C24: while the bridge listens its singleton is the one fully registered
\* server the registration sequence produced, and once the singleton exists no
\* step registers anything again or replaces it
C24_InitializedOnce ==
    /\ []((entry = "http" /\ phase = "listening") => FullyRegistered)
    /\ [][(entry = "http" /\ mcpServer # Null) =>
            (mcpServer' = mcpServer /\ toolRegistry' = toolRegistry)]_vars

\* the names a standard-I/O entry point registers in environment e
StdioTools(main, e) ==
    PrimaryTools \cup (IF main = "main" /\ e.lfKey THEN {"lf_scan"} ELSE {})

\* the response in the outbox was produced by reading the registry: a listing,
\* or a tools/call that got past the check of params.name
DispatchedOnRegistry ==
    \/ outbox.route = "GET /tools" /\ outbox.status = 200
    \/ /\ AnswersMcp
       /\ ReqJsonRpc = Str("2.0")
       /\ ReqMethod \in {Str("tools/list"), Str("tools/call")}
       /\ ~(outbox.status = 500 /\ "data" \in DOMAIN outbox.json.error)
       /\ ~AnsweredError(400, -32602)

C26_RequestsLeaveRegistry ==
    [][(phase \in {"listening", "connected"} /\ DOMAIN toolRegistry # {}) =>
          (toolRegistry' = toolRegistry /\ mcpServer' = mcpServer)]_vars

C26_Witness ==
    /\ outbox.route = "GET /tools"
    /\ outbox.status = 200
    /\ \E tl \in ListedTools :
          /\ tl.name = "x_post"
          /\ \E q \in tl.inputSchema.properties : q.prop = "tags" /\ Truthy(q.items)
    /\ toolRegistry["x_post"].inputSchema = PostSchema
    /\ \E slot \in Slots : inflight[slot] # Idle

C28_CallsIsolated ==
    [][\A slot \in Slots :
          (inflight[slot] # Idle /\ inflight[slot].via = "http" /\ inflight'[slot] = Idle) =>
              /\ outbox'.req = inflight[slot].req
              /\ outbox'.call = inflight[slot].call
              /\ Get(outbox'.json, "id") = Get(inflight[slot].req, "id")
              /\ outbox'.json = McpCallReply(inflight[slot].req, outbox'.outcome).json
              /\ outbox'.status = McpCallReply(inflight[slot].req, outbox'.outcome).status
              /\ \A other \in Slots \ {slot} : inflight'[other] = inflight[other]]_vars

C28_Witness ==
    /\ AnswersThrow
    /\ ReqId = Num(1)
    /\ outbox.status = 500
    /\ \E slot \in Slots :
          /\ inflight[slot] # Idle
          /\ inflight[slot].via = "http"
          /\ Get(inflight[slot].req, "id") = Num(0)

\* the names a tools/list request would return in this state: none when
\* getMcpServer throws
ListableNames ==
    IF GetMcpServer(mcpServer, toolRegistry, env).threw
    THEN {}
    ELSE {tl.name : tl \in GetToolsList(toolRegistry)}

\* C29: on the bridge a tools/call naming a tool is answered 404 with -32601
\* exactly when tools/list does not return the name, and a handler is called
\* only for a name that tools/list returns
C29_DiscoveryMatchesInvocation ==
    /\ (/\ AnswersMcp
        /\ ReqJsonRpc = Str("2.0")
        /\ ReqMethod = Str("tools/call")
        /\ ParamsName(ReqParams) # Undefined)
          => (AnsweredError(404, -32601) <=>
                ~(ParamsName(ReqParams).t = "string"
                  /\ ParamsName(ReqParams).s \in ListableNames))
    /\ \A slot \in Slots :
          (inflight[slot] # Idle /\ inflight[slot].via = "http")
              => inflight[slot].tool \in ListableNames

\* a tools/call of the bridge is awaiting its handler in this slot
Awaiting(slot) == inflight[slot] # Idle /\ inflight[slot].via = "http"

====
